---- MODULE Spec2Model ----
(***************************************************************************)
(* Model of MetadataStorageFromStaticFilesWebServer, the read-only         *)
(* metadata view of a web (static files) disk, and of its transaction.     *)
(*                                                                         *)
(* A path is a sequence of one-character strings.  The Index               *)
(* (object_storage.files, a std::map ordered by std::string's operator<)   *)
(* is a function from its keys to FileData records; its iteration order    *)
(* is recovered by SortedKeys.  One client thread issues the operations;   *)
(* every operation that can block in the fetcher is split at the blocking  *)
(* call, and ConcurrentInitialize is the fetch of another thread that      *)
(* lands while this one is between two steps.                              *)
(***************************************************************************)
EXTENDS Naturals, Sequences, FiniteSets

VARIABLES
    files,  \* object_storage.files, the Index
    pc,     \* where the client thread is in its operation
    op,     \* the operation it is in, or has just finished
    arg,    \* the path passed to it
    ctx,    \* whether the thread has a query context
    flag,   \* throw_on_error of a direct initializeIfNeeded call
    log,    \* the initializeIfNeeded calls of the operation, in order
    ret,    \* what the operation handed back
    seen,   \* what exists / isFile answered just before on the same path,
            \* and whether the path was a key when isFile was called
    watch   \* at most one path for which an exists() was seen to return true

vars == <<files, pc, op, arg, ctx, flag, log, ret, seen, watch>>

(***************************************************************************)
(* Bounds                                                                  *)
(***************************************************************************)
\* Depth of the directory chain t, t/t, ... that the remote server holds.
MaxDepth == 1

\* Length of the keys and paths, and number of keys, of the Index states
\* on which the lookup of exists() is checked by itself.
MaxKeyLen == 2

MaxKeys == 2

(***************************************************************************)
(* Strings                                                                 *)
(***************************************************************************)
Chars == {".", "/", "a", "b", "h", "r", "t", "x"}

\* The value of a character as unsigned char (std::string compares bytes).
Ord(c) ==
    CASE c = "." -> 46
      [] c = "/" -> 47
      [] c = "a" -> 97
      [] c = "b" -> 98
      [] c = "h" -> 104
      [] c = "r" -> 114
      [] c = "t" -> 116
      [] c = "x" -> 120

\* std::string operator< : lexicographic on bytes, a proper prefix is less.
StrLess(s, t) ==
    \E i \in 1..Len(t) :
        /\ i <= Len(s) + 1
        /\ \A j \in 1..(i - 1) : s[j] = t[j]
        /\ \/ i = Len(s) + 1
           \/ Ord(s[i]) < Ord(t[i])

startsWith_properPrefix(s, prefix) ==
    /\ prefix # <<>>
    /\ Len(prefix) <= Len(s)
    /\ SubSeq(s, 1, Len(prefix)) = prefix

\* startsWith(s, prefix) / std::string::starts_with
startsWith(s, prefix) ==
    /\ Len(prefix) <= Len(s)
    /\ SubSeq(s, 1, Len(prefix)) = prefix

LastIndexOf(s, c) ==
    LET I == {i \in 1..Len(s) : s[i] = c}
    IN  IF I = {} THEN 0 ELSE CHOOSE i \in I : \A j \in I : j <= i

(***************************************************************************)
(* std::filesystem::path, generic format, as the source uses it            *)
(***************************************************************************)
\* fs::path::filename(): what follows the last separator.
filename(p) == SubSeq(p, LastIndexOf(p, "/") + 1, Len(p))

\* fs::path::extension(): from the last period of the filename, unless the
\* filename is "." or "..", has no period, or only starts with one.
extension(p) ==
    LET f == filename(p)
        i == LastIndexOf(f, ".")
    IN  IF f = <<".">> \/ f = <<".", ".">> \/ i <= 1
        THEN <<>>
        ELSE SubSeq(f, i, Len(f))

has_extension(p) == extension(p) # <<>>

\* fs::path::stem(): the filename without its extension.
stem(p) ==
    LET f == filename(p)
    IN  SubSeq(f, 1, Len(f) - Len(extension(p)))

\* fs::path::parent_path(): the path without its last component and the
\* separators before it; the root directory is its own parent.
parent_path(p) ==
    LET i == LastIndexOf(p, "/")
        J == {j \in 1..i : p[j] # "/"}
    IN  IF i = 0 THEN <<>>
        ELSE IF J = {} THEN <<"/">>
        ELSE SubSeq(p, 1, CHOOSE j \in J : \A k \in J : k <= j)

\* fs::path operator/ : an absolute right side replaces the left; else a
\* separator is added when the left side has a filename.
PathAppend(a, b) ==
    IF b # <<>> /\ b[1] = "/" THEN b
    ELSE IF filename(a) # <<>> THEN a \o <<"/">> \o b
    ELSE a \o b

(***************************************************************************)
(* The remote tree and the query paths                                     *)
(***************************************************************************)
RECURSIVE DirPath(_)
DirPath(n) == IF n = 1 THEN <<"t">> ELSE DirPath(n - 1) \o <<"/", "t">>

RemoteDirs == {DirPath(n) : n \in 1..MaxDepth}

\* A file a.b in every directory, and beside t a file whose stem t.a has a
\* byte that escapeForFileName rewrites.
RemoteFiles ==
    {d \o <<"/", "a", ".", "b">> : d \in RemoteDirs} \cup {<<"t", ".", "a", ".", "b">>}

RemoteKeys == RemoteDirs \cup RemoteFiles

\* FileData {type, size}; a directory has size 0.
Remote ==
    [k \in RemoteKeys |->
        IF k \in RemoteDirs THEN [type |-> "Directory", size |-> 0]
        ELSE [type |-> "File", size |-> 95 + Len(k)]]

\* The root, the remote entries, a directory written with a trailing
\* separator, a partial file name and a missing path.
Paths == RemoteKeys \cup {<<>>, <<"t", "/">>, <<"t", "/", "a">>, <<"x">>}

(***************************************************************************)
(* The Index: object_storage.files                                         *)
(***************************************************************************)
\* The keys in the map's iteration order (ascending by StrLess).
RECURSIVE SortedSeq(_)
SortedSeq(K) ==
    IF K = {} THEN <<>>
    ELSE LET m == CHOOSE k \in K : \A j \in K : j = k \/ StrLess(k, j)
         IN  <<m>> \o SortedSeq(K \ {m})

SortedKeys(f) == SortedSeq(DOMAIN f)

\* std::lower_bound over the map with the comparator file.first < path_:
\* the position of the first key that is not less than path, or
\* Len + 1 for files.end().
lower_bound_begin(ks, path) == 1

lower_bound(ks, path) ==
    LET N == {i \in 1..Len(ks) : ~StrLess(ks[i], path)}
    IN  IF N = {} THEN Len(ks) + 1 ELSE CHOOSE i \in N : \A j \in N : i <= j

ProbePath_self(path) == path

\* The path exists() hands to initializeIfNeeded: the parent of a path that
\* has an extension, else the path.
ProbePath(path) == IF has_extension(path) THEN parent_path(path) ELSE path

ExistsLookup_keysOnly(f, path) == path \in DOMAIN f

ExistsLookup_nonEmpty(f, path) == DOMAIN f # {}

ExistsLookup_always(f, path) == TRUE

\* exists(), after its initializeIfNeeded: the answer read from the Index.
ExistsLookup(f, path) ==
    LET ks == SortedKeys(f)
        it == lower_bound(ks, path)
    IN  IF DOMAIN f = {} THEN FALSE
        ELSE IF path \in DOMAIN f THEN TRUE
        ELSE IF it = Len(ks) + 1 THEN FALSE
        ELSE \/ startsWith(ks[it], path)
             \/ (it # 1 /\ startsWith(ks[it - 1], path))

NeedsFetch_always(f, path) == TRUE

\* initializeIfNeeded(): the fetcher is called when path is no key.
NeedsFetch(f, path) == path \notin DOMAIN f

CanThrow_ignoresFlag(throw_on_error, c) == c

\* initializeIfNeeded(): whether a failed fetch is rethrown. throw_on_error
\* is "unset", "true" or "false"; c is whether the current thread has a
\* query context.
CanThrow(throw_on_error, c) ==
    IF throw_on_error # "unset" THEN throw_on_error = "true" ELSE c

\* What a call hands back: a value of some kind, or an exception.
Thrown(e) == [kind |-> "throw", val |-> e]

Returned(k, v) == [kind |-> k, val |-> v]

isFileAt_anyEntry(f, path) ==
    IF path \in DOMAIN f THEN [kind |-> "bool", val |-> TRUE]
    ELSE [kind |-> "throw", val |-> "out_of_range"]

isDirectoryAt_asFile(f, path) ==
    IF path \in DOMAIN f THEN [kind |-> "bool", val |-> f[path].type = "File"]
    ELSE [kind |-> "throw", val |-> "out_of_range"]

\* files.at(path) of isFile / isDirectory / getFileSize: the projection, or
\* std::out_of_range when path is no key.
isFileAt(f, path) ==
    IF path \in DOMAIN f THEN Returned("bool", f[path].type = "File")
    ELSE Thrown("out_of_range")

isDirectoryAt(f, path) ==
    IF path \in DOMAIN f THEN Returned("bool", f[path].type = "Directory")
    ELSE Thrown("out_of_range")

getFileSizeAt(f, path) ==
    IF path \in DOMAIN f THEN Returned("size", f[path].size)
    ELSE Thrown("out_of_range")

listDirectory_below(f, path) ==
    SelectSeq(SortedKeys(f), LAMBDA k : startsWith(k, path \o <<"/">>))

\* listDirectory(): the keys that start with path, in map order.
listDirectory(f, path) ==
    SelectSeq(SortedKeys(f), LAMBDA k : startsWith(k, path))

\* parentPath() of Common/filesystemHelpers: the parent with a trailing
\* separator; a path ending in a separator goes up twice.
parentPath(path) ==
    IF path # <<>> /\ path[Len(path)] = "/"
    THEN PathAppend(parent_path(parent_path(path)), <<>>)
    ELSE PathAppend(parent_path(path), <<>>)

DirectoryScan_prefix(f, path) ==
    SelectSeq(SortedKeys(f), LAMBDA k : startsWith(k, path))

\* iterateDirectory(), its loop: the keys whose parentPath is path / "".
DirectoryScan(f, path) ==
    SelectSeq(SortedKeys(f),
              LAMBDA k : PathAppend(parentPath(k), <<>>) = PathAppend(path, <<>>))

\* object_storage.url
Url == <<"h", "/", "r">>

\* escapeForFileName(): a word character is kept, any other byte becomes
\* % and its two hexadecimal digits.
RECURSIVE escapeForFileName(_)
escapeForFileName(s) ==
    IF s = <<>> THEN <<>>
    ELSE (CASE s[1] = "." -> <<"%", "2", "E">>
            [] s[1] = "/" -> <<"%", "2", "F">>
            [] OTHER -> <<s[1]>>) \o escapeForFileName(Tail(s))

getStorageObjectsAt_unescaped(f, path) ==
    IF path \in DOMAIN f
    THEN [kind |-> "objects",
          val |-> <<[key |-> <<"/">> \o path, size |-> f[path].size, is_remote |-> TRUE]>>]
    ELSE [kind |-> "throw", val |-> "out_of_range"]

\* getStorageObjects(), after assertExists: one object whose key is the
\* path under the url with the stem escaped, the url cut off again.
getStorageObjectsAt(f, path) ==
    LET fs_path == PathAppend(Url, path)
        remote_path == PathAppend(parent_path(fs_path),
                           escapeForFileName(stem(fs_path)) \o extension(fs_path))
        key == SubSeq(remote_path, Len(Url) + 1, Len(remote_path))
    IN  IF path \in DOMAIN f
        THEN Returned("objects",
                 <<[key |-> key, size |-> f[path].size, is_remote |-> TRUE]>>)
        ELSE Thrown("out_of_range")

(***************************************************************************)
(* The transaction                                                         *)
(***************************************************************************)
NoopOps ==
    {"createDirectory", "createDirectoryRecursive", "createEmptyMetadataFile",
     "createMetadataFile", "commit"}

NotAllowedOps ==
    {"writeStringToFile", "setLastModified", "unlinkFile", "removeRecursive",
     "removeDirectory", "moveFile", "moveDirectory", "replaceFile",
     "setReadOnly", "createHardLink", "addBlobToMetadata", "unlinkMetadata"}

TxOps == NoopOps \cup NotAllowedOps \cup {"chmod"}

TxOutcome_chmodNoop(o) ==
    IF o \in NoopOps \cup {"chmod"} THEN [kind |-> "void", val |-> FALSE]
    ELSE [kind |-> "throw", val |-> "NOT_ALLOWED"]

\* What each method of the transaction does with its caller: the body is
\* empty, or WebObjectStorage::throwNotAllowed(), or a throw of
\* NOT_IMPLEMENTED.
TxOutcome(o) ==
    IF o \in NoopOps THEN Returned("void", FALSE)
    ELSE IF o \in NotAllowedOps THEN Thrown("NOT_ALLOWED")
    ELSE Thrown("NOT_IMPLEMENTED")

TxEffect_creates(o, f, path) ==
    IF o \in {"createDirectory", "createDirectoryRecursive"} /\ path \notin DOMAIN f
    THEN [k \in DOMAIN f \cup {path} |->
             IF k \in DOMAIN f THEN f[k] ELSE [type |-> "Directory", size |-> 0]]
    ELSE f

\* What each method of the transaction does with the Index: nothing.
TxEffect(o, f, path) == f

(***************************************************************************)
(* The fetcher: WebObjectStorage::initialize                               *)
(***************************************************************************)
\* A path without the separators at its end.
StripSeparators(path) ==
    LET J == {j \in 1..Len(path) : path[j] # "/"}
    IN  IF J = {} THEN <<>> ELSE SubSeq(path, 1, CHOOSE j \in J : \A k \in J : k <= j)

\* The remote entries in the listing rooted at path.
Subtree(path) ==
    LET d == StripSeparators(path)
    IN  {k \in RemoteKeys : d = <<>> \/ k = d \/ startsWith(k, d \o <<"/">>)}

\* The Index with the entries S merged in; a key already there keeps its
\* entry.
Merge(f, S) ==
    [k \in DOMAIN f \cup S |-> IF k \in DOMAIN f THEN f[k] ELSE Remote[k]]

(***************************************************************************)
(* The client thread                                                       *)
(***************************************************************************)
\* The operations that start with assertExists(path), and assertExists.
AssertingOps ==
    {"assertExists", "isFile", "isDirectory", "getFileSize", "getStorageObjects"}

ViewOps ==
    AssertingOps \cup {"exists", "iterateDirectory", "listDirectory", "initializeIfNeeded"}

NoValue == Returned("none", FALSE)

NoneSeen == [ex |-> "none", isf |-> "none", key |-> FALSE]

\* A finished call as the caller remembers it.
Outcome(r) ==
    IF r.kind = "bool" THEN (IF r.val THEN "true" ELSE "false") ELSE "raise"

\* One call of initializeIfNeeded in the log of the current operation:
\* where it was called from, its path, and "hit" (a key, no fetch),
\* "pending" (the fetcher is running), "ok" or "fail".
Entry(site, path, res) == [site |-> site, path |-> path, res |-> res]

Settle(lg, res) == [lg EXCEPT ![Len(lg)].res = res]

\* exists(), from its first line to the fetcher or to the lookup.
EnterExists(f, lg, path) ==
    LET q == ProbePath(path)
    IN  IF NeedsFetch(f, q)
        THEN [pc |-> "fetch_exists", log |-> Append(lg, Entry("exists", q, "pending")),
              ret |-> NoValue]
        ELSE [pc |-> "lookup", log |-> Append(lg, Entry("exists", q, "hit")),
              ret |-> NoValue]

\* assertExists(), from its first line on.
EnterAssert(f, lg, path) ==
    IF NeedsFetch(f, path)
    THEN [pc |-> "fetch_assert", log |-> Append(lg, Entry("assert", path, "pending")),
          ret |-> NoValue]
    ELSE EnterExists(f, Append(lg, Entry("assert", path, "hit")), path)

AfterTop_ignoresFailure(o, ok, f, lg, path) ==
    IF o = "initializeIfNeeded"
    THEN [pc |-> "done", log |-> lg, ret |-> [kind |-> "bool", val |-> ok]]
    ELSE IF NeedsFetch(f, path)
    THEN [pc |-> "fetch_assert",
          log |-> Append(lg, [site |-> "assert", path |-> path, res |-> "pending"]),
          ret |-> [kind |-> "none", val |-> FALSE]]
    ELSE [pc |-> "lookup",
          log |-> Append(lg, [site |-> "assert", path |-> path, res |-> "hit"]),
          ret |-> [kind |-> "none", val |-> FALSE]]

\* What follows the initializeIfNeeded that an operation calls itself:
\* initializeIfNeeded returns its result, iterateDirectory returns the
\* empty iterator on failure and goes on to assertExists otherwise.
AfterTop(o, ok, f, lg, path) ==
    IF o = "initializeIfNeeded" THEN [pc |-> "done", log |-> lg, ret |-> Returned("bool", ok)]
    ELSE IF ~ok THEN [pc |-> "done", log |-> lg, ret |-> Returned("paths", <<>>)]
    ELSE EnterAssert(f, lg, path)

EnterTop(o, f, lg, path) ==
    IF NeedsFetch(f, path)
    THEN [pc |-> "fetch_top", log |-> Append(lg, Entry("top", path, "pending")),
          ret |-> NoValue]
    ELSE AfterTop(o, TRUE, f, Append(lg, Entry("top", path, "hit")), path)

\* The code that runs when the initializeIfNeeded called from site returns.
AfterInit(site, o, ok, f, lg, path) ==
    CASE site = "top" -> AfterTop(o, ok, f, lg, path)
      [] site = "assert" -> EnterExists(f, lg, path)
      [] site = "exists" -> [pc |-> "lookup", log |-> lg, ret |-> NoValue]

\* The first steps of a view operation.
Enter(o, f, path) ==
    CASE o = "exists" -> EnterExists(f, <<>>, path)
      [] o \in AssertingOps -> EnterAssert(f, <<>>, path)
      [] o \in {"iterateDirectory", "initializeIfNeeded"} -> EnterTop(o, f, <<>>, path)
      [] o = "listDirectory" ->
            [pc |-> "done", log |-> <<>>, ret |-> Returned("paths", listDirectory(f, path))]

SiteFlag_existsUnset(site, fl) == IF site = "top" THEN fl ELSE "unset"

\* The throw_on_error each call site passes.
SiteFlag(site, fl) ==
    CASE site = "top" -> fl
      [] site = "assert" -> "unset"
      [] site = "exists" -> "false"

Init ==
    /\ files = [k \in {} |-> Remote[k]]
    /\ pc = "idle"
    /\ op = "none"
    /\ arg = <<>>
    /\ ctx = FALSE
    /\ flag = "unset"
    /\ log = <<>>
    /\ ret = NoValue
    /\ seen = NoneSeen
    /\ watch = {}

\* isFile(p) right after exists(p), isDirectory(p) right after isFile(p):
\* the caller still holds the earlier answers when it makes the call.
FollowsUp(o, path) ==
    /\ pc = "done"
    /\ arg = path
    /\ \/ op = "exists" /\ o = "isFile"
       \/ op = "isFile" /\ o = "isDirectory"

\* The answers the caller holds for the path of its next call.
Carry(o, path) ==
    IF ~FollowsUp(o, path) THEN NoneSeen
    ELSE IF op = "exists" THEN [ex |-> Outcome(ret), isf |-> "none", key |-> FALSE]
    ELSE [ex |-> seen.ex, isf |-> Outcome(ret), key |-> log[1].res = "hit"]

\* The client calls view operation o on path, with or without a query
\* context on its thread; fl is the throw_on_error of a direct
\* initializeIfNeeded.
Call(o, path, c, fl) ==
    /\ pc = "idle" \/ FollowsUp(o, path)
    /\ LET e == Enter(o, files, path)
       IN  /\ pc' = e.pc
           /\ log' = e.log
           /\ ret' = e.ret
    /\ op' = o
    /\ arg' = path
    /\ ctx' = c
    /\ flag' = fl
    /\ seen' = Carry(o, path)
    /\ UNCHANGED <<files, watch>>

Query ==
    \E o \in ViewOps \ {"initializeIfNeeded"}, path \in Paths, c \in BOOLEAN :
        Call(o, path, c, "unset")

InitializeIfNeeded ==
    \E path \in Paths, c \in BOOLEAN, fl \in {"unset", "true", "false"} :
        Call("initializeIfNeeded", path, c, fl)

Fetching == pc \in {"fetch_top", "fetch_assert", "fetch_exists"}

\* object_storage.initialize(url / path) returns: some entries of the
\* listing rooted at path are in the Index now.
FetchSucceeds ==
    /\ Fetching
    /\ LET cur == log[Len(log)]
       IN  \E S \in SUBSET (Subtree(cur.path) \ DOMAIN files) :
               /\ files' = Merge(files, S)
               /\ LET e == AfterInit(cur.site, op, TRUE, files', Settle(log, "ok"), arg)
                  IN  /\ pc' = e.pc
                      /\ log' = e.log
                      /\ ret' = e.ret
    /\ UNCHANGED <<op, arg, ctx, flag, seen, watch>>

\* object_storage.initialize(url / path) throws: initializeIfNeeded throws
\* NETWORK_ERROR or returns false.
FetchFails ==
    /\ Fetching
    /\ LET cur == log[Len(log)]
           e == IF CanThrow(SiteFlag(cur.site, flag), ctx)
                THEN [pc |-> "done", log |-> Settle(log, "fail"),
                      ret |-> Thrown("NETWORK_ERROR")]
                ELSE AfterInit(cur.site, op, FALSE, files, Settle(log, "fail"), arg)
       IN  /\ pc' = e.pc
           /\ log' = e.log
           /\ ret' = e.ret
    /\ UNCHANGED <<files, op, arg, ctx, flag, seen, watch>>

\* exists() reads the Index and returns; assertExists throws
\* FILE_DOESNT_EXIST on false.
ExistsReturns ==
    /\ pc = "lookup"
    /\ LET r == ExistsLookup(files, arg)
       IN  IF op = "exists"
           THEN pc' = "done" /\ ret' = Returned("bool", r)
           ELSE IF ~r
           THEN pc' = "done" /\ ret' = Thrown("FILE_DOESNT_EXIST")
           ELSE pc' = "body" /\ ret' = ret
    /\ UNCHANGED <<files, op, arg, ctx, flag, log, seen, watch>>

\* What an operation does after its assertExists.
Body(o, f, path) ==
    CASE o = "assertExists" -> Returned("void", FALSE)
      [] o = "isFile" -> isFileAt(f, path)
      [] o = "isDirectory" -> isDirectoryAt(f, path)
      [] o = "getFileSize" -> getFileSizeAt(f, path)
      [] o = "getStorageObjects" -> getStorageObjectsAt(f, path)
      [] o = "iterateDirectory" -> Returned("paths", DirectoryScan(f, path))

BodyReturns ==
    /\ pc = "body"
    /\ pc' = "done"
    /\ ret' = Body(op, files, arg)
    /\ UNCHANGED <<files, op, arg, ctx, flag, log, seen, watch>>

\* A method of the transaction.
TransactionOp ==
    \E o \in TxOps, path \in Paths :
        /\ pc = "idle"
        /\ files' = TxEffect(o, files, path)
        /\ pc' = "done"
        /\ op' = o
        /\ arg' = path
        /\ flag' = "unset"
        /\ log' = <<>>
        /\ ret' = TxOutcome(o)
        /\ seen' = NoneSeen
        /\ UNCHANGED <<ctx, watch>>

\* The caller takes its answer and is ready for an unrelated call; w is
\* what an observer of the answers holds afterwards.
TakeAnswer(w) ==
    /\ pc = "done"
    /\ pc' = "idle"
    /\ op' = "none"
    /\ arg' = <<>>
    /\ flag' = "unset"
    /\ log' = <<>>
    /\ ret' = NoValue
    /\ seen' = NoneSeen
    /\ watch' = w
    /\ UNCHANGED <<files, ctx>>

Return == TakeAnswer(watch)

\* The observer notes the path of an exists() that answered true.
Observe ==
    /\ op = "exists"
    /\ ret.kind = "bool"
    /\ ret.val
    /\ watch = {}
    /\ TakeAnswer({arg})

\* The fetch of another thread lands: entries of the listing rooted at
\* whatever path it asked for (any entries, the root being a path).
ConcurrentInitialize ==
    \E S \in SUBSET (Subtree(<<>>) \ DOMAIN files) :
        /\ S # {}
        /\ files' = Merge(files, S)
        /\ UNCHANGED <<pc, op, arg, ctx, flag, log, ret, seen, watch>>

Next ==
    \/ Query
    \/ InitializeIfNeeded
    \/ FetchSucceeds
    \/ FetchFails
    \/ ExistsReturns
    \/ BodyReturns
    \/ TransactionOp
    \/ Return
    \/ ConcurrentInitialize

Spec == Init /\ [][Next]_vars

\* The same program with the observer of exists() answers.
NextObserved == Next \/ Observe

SpecObserved == Init /\ [][NextObserved]_vars

(***************************************************************************)
(* exists() on an arbitrary Index                                          *)
(***************************************************************************)
\* A period, a separator and a letter: the bytes whose order decides where
\* lower_bound lands between a directory, its entries and its neighbours.
LookupChars == {".", "/", "t"}

Words == UNION {[1..n -> LookupChars] : n \in 0..MaxKeyLen}

\* The sets of at most n keys.
RECURSIVE KeySets(_)
KeySets(n) ==
    IF n = 0 THEN {{}}
    ELSE LET P == KeySets(n - 1)
         IN  P \cup {K \cup {w} : K \in P, w \in Words}

\* exists(path) has come back from its initializeIfNeeded and is about to
\* read the Index, which is any std::map of at most MaxKeys keys (the
\* type and size of an entry do not enter exists).
InitLookup ==
    /\ files \in {[k \in K |-> [type |-> "Directory", size |-> 0]] : K \in KeySets(MaxKeys)}
    /\ pc = "lookup"
    /\ op = "exists"
    /\ arg \in Words
    /\ ctx = FALSE
    /\ flag = "unset"
    /\ log = <<Entry("exists", ProbePath(arg),
                      IF NeedsFetch(files, ProbePath(arg)) THEN "ok" ELSE "hit")>>
    /\ ret = NoValue
    /\ seen = NoneSeen
    /\ watch = {}

SpecLookup == InitLookup /\ [][ExistsReturns]_vars

(***************************************************************************)
(* Properties                                                              *)
(***************************************************************************)
Done(o) == pc = "done" /\ op = o

Gave(k, v) == ret.kind = k /\ ret.val = v

Raised(e) == ret.kind = "throw" /\ ret.val = e

\* Some initializeIfNeeded of the current operation had its fetch fail.
FetchFailed == \E i \in 1..Len(log) : log[i].res = "fail"

HasPrefixKey(f, path) == \E k \in DOMAIN f : startsWith(k, path)

HasDescendant(f, path) == \E k \in DOMAIN f : startsWith(k, path \o <<"/">>)

\* C1. Monotone existence: once an exists(p) has returned true (p is
\* watched from the moment its caller took that answer), every exists(p)
\* that returns later returns true, whatever queries, transaction methods
\* and fetches, successful or failing, came in between.
C1_MonotoneExistence ==
    (Done("exists") /\ arg \in watch) => Gave("bool", TRUE)

\* A later exists(p) answered true although its own fetch failed, and p
\* itself is no key.
C1_Witness ==
    /\ Done("exists")
    /\ arg \in watch
    /\ Gave("bool", TRUE)
    /\ FetchFailed
    /\ arg \notin DOMAIN files

\* C2. Ancestor existence via descendant: whenever exists(p) reads the
\* Index while some key starts with p + "/", it returns true, whether or
\* not p is a key and whether or not the fetch of the call succeeded.
C2_AncestorExistence ==
    [][(pc = "lookup" /\ pc' = "done" /\ op = "exists" /\ HasDescendant(files, arg))
           => (ret'.kind = "bool" /\ ret'.val = TRUE)]_vars

\* exists(p) answered true for a p that is no key but has a key below it,
\* after its fetch failed.
C2_Witness ==
    /\ Done("exists")
    /\ Gave("bool", TRUE)
    /\ arg \notin DOMAIN files
    /\ HasDescendant(files, arg)
    /\ FetchFailed

\* The statement of C3 as given: after exists(p) returned true, isFile(p)
\* and isDirectory(p) both return a boolean and exactly one is true (here
\* only for calls none of whose fetches failed).
C3_AsClaimed ==
    /\ (Done("isFile") /\ seen.ex = "true" /\ ~FetchFailed) => ret.kind = "bool"
    /\ (Done("isDirectory") /\ seen.ex = "true" /\ ~FetchFailed /\ seen.isf # "none") =>
           /\ ret.kind = "bool"
           /\ seen.isf \in {"true", "false"}
           /\ (seen.isf = "true") # ret.val

\* C3, amended. After exists(p) returned true: isFile(p) and isDirectory(p)
\* return a boolean when p is a key at the call, and exactly one of two
\* booleans is true; for a p that is no key a call may instead raise
\* std::out_of_range (files.at) or NETWORK_ERROR (its own fetch failed
\* under a query context), and never FILE_DOESNT_EXIST.
C3_ExistsThenClassify ==
    /\ (pc = "done" /\ op \in {"isFile", "isDirectory"} /\ seen.ex = "true") =>
           /\ log[1].res = "hit" => ret.kind = "bool"
           /\ ret.kind \in {"bool", "throw"}
           /\ ret.kind = "throw" =>
                  /\ ret.val \in {"out_of_range", "NETWORK_ERROR"}
                  /\ log[1].res # "hit"
    /\ (Done("isDirectory") /\ seen.ex = "true"
            /\ seen.isf \in {"true", "false"} /\ ret.kind = "bool") =>
           (seen.isf = "true") # ret.val

\* exists(p) was true, then isFile(p) and isDirectory(p) both raised
\* std::out_of_range: p is an ancestor of a key and no key itself.
C3_Witness ==
    /\ Done("isDirectory")
    /\ seen.ex = "true"
    /\ seen.isf = "raise"
    /\ Raised("out_of_range")
    /\ arg \notin DOMAIN files
    /\ HasDescendant(files, arg)

\* C4. Classification exclusivity: for a path that is a key when isFile(p)
\* and isDirectory(p) are called, both return a boolean, and exactly one
\* is true, also when the fetch made inside exists fails.
C4_ClassificationExclusive ==
    /\ (pc = "done" /\ op \in {"isFile", "isDirectory"} /\ log[1].res = "hit") =>
           ret.kind = "bool"
    /\ (Done("isDirectory") /\ log[1].res = "hit" /\ seen.isf # "none" /\ seen.key) =>
           /\ seen.isf \in {"true", "false"}
           /\ ret.kind = "bool"
           /\ (seen.isf = "true") # ret.val

\* isFile(p) said true and isDirectory(p) said false for a key p, the
\* fetch of the parent made inside exists having failed.
C4_Witness ==
    /\ Done("isDirectory")
    /\ seen.key
    /\ seen.isf = "true"
    /\ Gave("bool", FALSE)
    /\ log[1].res = "hit"
    /\ \E i \in 1..Len(log) : log[i].site = "exists" /\ log[i].res = "fail"

\* C5. Transaction purity: a method of the transaction, whether it
\* returns or raises, leaves the Index as it was, and with it the answer
\* every view operation reads from the Index for every path.
C5_TransactionPurity ==
    [][TransactionOp =>
           /\ files' = files
           /\ \A path \in Paths :
                  /\ ExistsLookup(files', path) = ExistsLookup(files, path)
                  /\ getFileSizeAt(files', path) = getFileSizeAt(files, path)
                  /\ isFileAt(files', path) = isFileAt(files, path)
                  /\ listDirectory(files', path) = listDirectory(files, path)
                  /\ DirectoryScan(files', path) = DirectoryScan(files, path)]_vars

\* createDirectory(q) has returned for a q that is not in the non-empty
\* Index, and exists still reads false for q.
C5_Witness ==
    /\ Done("createDirectory")
    /\ ret.kind = "void"
    /\ DOMAIN files # {}
    /\ arg \notin DOMAIN files
    /\ ~ExistsLookup(files, arg)

\* The statement of C6 as given, in its last sentence: every write-side
\* method either returns having done nothing or raises the not-allowed
\* error.
C6_AsClaimed ==
    (pc = "done" /\ op \in TxOps) => (ret.kind = "void" \/ Raised("NOT_ALLOWED"))

\* C6, amended. Every method of the transaction has a fixed outcome,
\* whatever its arguments and the Index: the five creating methods and
\* commit return silently, twelve raise the not-allowed error, and chmod
\* raises NOT_IMPLEMENTED, which is a third outcome.
C6_FixedOutcome ==
    /\ (pc = "done" /\ op \in {"createDirectory", "createDirectoryRecursive",
                                "createEmptyMetadataFile", "createMetadataFile",
                                "commit"}) => ret.kind = "void"
    /\ (pc = "done" /\ op \in {"writeStringToFile", "setLastModified", "unlinkFile",
                                "removeRecursive", "removeDirectory", "moveFile",
                                "moveDirectory", "replaceFile", "setReadOnly",
                                "createHardLink", "addBlobToMetadata",
                                "unlinkMetadata"}) => Raised("NOT_ALLOWED")
    /\ Done("chmod") => Raised("NOT_IMPLEMENTED")

\* chmod has raised NOT_IMPLEMENTED on a path that is a key of the Index.
C6_Witness ==
    /\ Done("chmod")
    /\ Raised("NOT_IMPLEMENTED")
    /\ arg \in DOMAIN files

\* C7. initializeIfNeeded(path, throw_on_error): for a key it returns true
\* and the fetcher is not called; otherwise the fetcher is called once, for
\* path, and the call returns true if the fetch succeeds; if it fails the
\* call raises NETWORK_ERROR or returns false as throw_on_error says, and
\* with throw_on_error unset as the thread has a query context or not.
C7_LazyInitProtocol ==
    /\ [](Done("initializeIfNeeded") =>
             /\ Len(log) = 1
             /\ log[1].path = arg
             /\ log[1].res \in {"hit", "ok"} => Gave("bool", TRUE)
             /\ log[1].res = "fail" =>
                    IF flag = "true" \/ (flag = "unset" /\ ctx)
                    THEN Raised("NETWORK_ERROR")
                    ELSE Gave("bool", FALSE))
    /\ [][(pc = "idle" /\ op' = "initializeIfNeeded") =>
             IF arg' \in DOMAIN files
             THEN pc' = "done" /\ log'[1].res = "hit"
             ELSE pc' = "fetch_top" /\ log'[1].res = "pending"]_vars

\* initializeIfNeeded was called with throw_on_error unset on a thread
\* with a query context, its fetch failed, and it raised NETWORK_ERROR.
C7_Witness ==
    /\ Done("initializeIfNeeded")
    /\ flag = "unset"
    /\ ctx
    /\ log[1].res = "fail"
    /\ Raised("NETWORK_ERROR")

\* The statement of C8 as given: when a fetch of the call fails on a
\* thread without a query context, iterateDirectory(p) returns the empty
\* iterator and exists(p) returns false.
C8_AsClaimed ==
    /\ (Done("iterateDirectory") /\ ~ctx /\ log[1].res = "fail") => Gave("paths", <<>>)
    /\ (Done("exists") /\ ~ctx /\ FetchFailed) => Gave("bool", FALSE)

\* C8, amended. When the fetch fails on a thread without a query context,
\* neither call raises; iterateDirectory(p), its own initializeIfNeeded
\* having failed, returns the empty iterator; exists(p) returns true if
\* some key of the Index starts with p, and false only otherwise.
C8_FailureWithoutContext ==
    /\ []((Done("iterateDirectory") /\ ~ctx /\ log[1].res = "fail") =>
              Gave("paths", <<>>))
    /\ []((Done("exists") /\ ~ctx /\ FetchFailed) => ret.kind = "bool")
    /\ [][(pc = "lookup" /\ pc' = "done" /\ op = "exists" /\ ~ctx /\ FetchFailed) =>
              (ret'.kind = "bool" /\ ret'.val = HasPrefixKey(files, arg))]_vars

\* exists(p) returned false after its fetch failed without a query
\* context, the Index holding other entries.
C8_Witness ==
    /\ Done("exists")
    /\ ~ctx
    /\ FetchFailed
    /\ Gave("bool", FALSE)
    /\ DOMAIN files # {}

\* The statement of C9 as given: a view query one of whose fetches fails
\* on a thread with a query context raises NETWORK_ERROR.
C9_AsClaimed ==
    (/\ pc = "done"
     /\ op \in AssertingOps \cup {"exists", "iterateDirectory"}
     /\ ctx
     /\ FetchFailed) => Raised("NETWORK_ERROR")

\* C9, amended. On a thread with a query context, isFile, isDirectory,
\* getFileSize, getStorageObjects and iterateDirectory raise NETWORK_ERROR
\* when the fetch of an initializeIfNeeded called with throw_on_error unset
\* (by the operation itself or by its assertExists) fails, and only then;
\* the fetch made inside exists is called with throw_on_error false: its
\* failure is swallowed, and exists never raises.
C9_FailureWithContext ==
    /\ (pc = "done" /\ op \in AssertingOps \cup {"iterateDirectory"}) =>
           (Raised("NETWORK_ERROR") <=>
               (ctx /\ \E i \in 1..Len(log) :
                          log[i].site \in {"top", "assert"} /\ log[i].res = "fail"))
    /\ Done("exists") => ret.kind = "bool"

\* isFile(p) raised NETWORK_ERROR: the fetch of its assertExists failed
\* on a thread with a query context.
C9_Witness ==
    /\ Done("isFile")
    /\ ctx
    /\ log[1].res = "fail"
    /\ Raised("NETWORK_ERROR")

\* The statement of C10 as given: within one query the fetcher is not
\* called twice for the same path.
C10_AsClaimed ==
    \A i, j \in 1..Len(log) :
        (i < j /\ log[i].res # "hit" /\ log[j].res # "hit") => log[i].path # log[j].path

\* C10, amended. Each initializeIfNeeded calls the fetcher at most once,
\* and only for a path that is no key at that moment; one query makes at
\* most one such call in exists, two in assertExists, isFile, isDirectory,
\* getFileSize and getStorageObjects, three in iterateDirectory, none in listDirectory
\* and the transaction, each for the queried path or its probe path, and
\* these may be calls for the same path.
MaxInitCalls(o) ==
    CASE o \in {"exists", "initializeIfNeeded"} -> 1
      [] o \in AssertingOps -> 2
      [] o = "iterateDirectory" -> 3
      [] OTHER -> 0

C10_FetchPerInitCall ==
    /\ [](/\ Len(log) <= MaxInitCalls(op)
          /\ \A i \in 1..Len(log) :
                 /\ log[i].path \in {arg, ProbePath(arg)}
                 /\ log[i].res = "pending" => (i = Len(log) /\ Fetching))
    /\ [][(Query \/ InitializeIfNeeded \/ FetchSucceeds \/ FetchFails) =>
             \A i \in (IF Fetching THEN Len(log) + 1 ELSE 1)..Len(log') :
                 /\ log'[i].res \in {"hit", "pending"}
                 /\ log'[i].res = "hit" <=> log'[i].path \in DOMAIN files']_vars

\* iterateDirectory(p) called the fetcher three times for p, which was no
\* key each time.
C10_Witness ==
    /\ Done("iterateDirectory")
    /\ Len(log) = 3
    /\ \A i \in 1..3 : log[i].path = arg /\ log[i].res \in {"ok", "fail"}

\* C11. Missing path: when the exists(p) inside assertExists(p), isFile(p),
\* isDirectory(p), getFileSize(p) or getStorageObjects(p) reads an Index in
\* which no key starts with p (so it answers false), the fetches before it
\* having succeeded or failed without being rethrown, the operation raises
\* FILE_DOESNT_EXIST and hands back no value; a finished call on a path no
\* key starts with has raised FILE_DOESNT_EXIST unless it raised
\* NETWORK_ERROR before it reached exists.
C11_MissingPath ==
    /\ []((pc = "done" /\ op \in AssertingOps /\ ~HasPrefixKey(files, arg)) =>
              /\ ret.kind = "throw"
              /\ ret.val \in {"FILE_DOESNT_EXIST", "NETWORK_ERROR"}
              /\ ret.val = "NETWORK_ERROR" =>
                     (ctx /\ log[Len(log)].site = "assert" /\ log[Len(log)].res = "fail"))
    /\ [][(pc = "lookup" /\ pc' # "lookup" /\ op \in AssertingOps
               /\ ~HasPrefixKey(files, arg)) =>
              (pc' = "done" /\ ret'.kind = "throw" /\ ret'.val = "FILE_DOESNT_EXIST")]_vars

\* getStorageObjects(p) raised FILE_DOESNT_EXIST on a thread with a query
\* context: both fetches for p succeeded and brought nothing that starts
\* with p into a non-empty Index.
C11_Witness ==
    /\ Done("getStorageObjects")
    /\ Raised("FILE_DOESNT_EXIST")
    /\ ctx
    /\ Len(log) = 2
    /\ \A i \in 1..2 : log[i].res = "ok"
    /\ DOMAIN files # {}
    /\ ~HasPrefixKey(files, arg)

\* C12. Empty Index: whenever the Index is empty when exists(p) reads it,
\* that is after the fetch of its probe path has returned, exists(p)
\* returns false, for every p; and a finished exists(p) that finds the
\* Index still empty has returned false.
C12_EmptyIndex ==
    /\ []((Done("exists") /\ DOMAIN files = {}) => Gave("bool", FALSE))
    /\ [][(pc = "lookup" /\ pc' # "lookup" /\ op = "exists" /\ DOMAIN files = {}) =>
              (pc' = "done" /\ ret'.kind = "bool" /\ ret'.val = FALSE)]_vars

\* exists(p) returned false on an empty Index for a path the server has:
\* the fetch came back without an entry.
C12_Witness ==
    /\ Done("exists")
    /\ DOMAIN files = {}
    /\ Gave("bool", FALSE)
    /\ arg \in RemoteKeys
    /\ log[1].res = "ok"

\* C13. Root existence: whenever the Index is non-empty, exists("")
\* returns true, whether or not the fetch of the root that the call makes
\* succeeds; the Index never shrinks, so an Index that is non-empty at
\* the call is non-empty when exists reads it.
C13_RootExistence ==
    /\ [][(pc = "lookup" /\ pc' # "lookup" /\ op = "exists" /\ arg = <<>>
               /\ DOMAIN files # {}) =>
              (pc' = "done" /\ ret'.kind = "bool" /\ ret'.val = TRUE)]_vars
    /\ [][DOMAIN files \subseteq DOMAIN files']_vars
    /\ []((pc = "fetch_exists" /\ op = "exists" /\ arg = <<>>) =>
              (Len(log) = 1 /\ log[1].path = <<>> /\ log[1].res = "pending"))

\* exists("") returned true on a non-empty Index although its fetch of
\* the root failed, under a query context.
C13_Witness ==
    /\ Done("exists")
    /\ arg = <<>>
    /\ Gave("bool", TRUE)
    /\ ctx
    /\ log[1].res = "fail"

\* The elements of a sequence, and whether it ascends strictly in the
\* order of the Index.
Elems(s) == {s[i] : i \in 1..Len(s)}

Ascending(s) == \A i, j \in 1..Len(s) : i < j => StrLess(s[i], s[j])

\* C14. listDirectory(p) returns exactly the keys of the Index that start
\* with p as a string (p itself when it is a key, and everything below or
\* beside it that shares the prefix), each once, in the order of the
\* Index; it does so in one step from the Index alone: the fetcher is not
\* called, nothing is raised, and the Index is left as it was.
C14_ListDirectory ==
    /\ [][(pc = "idle" /\ op' = "listDirectory") =>
              /\ pc' = "done"
              /\ files' = files
              /\ log' = <<>>
              /\ ret'.kind = "paths"
              /\ Elems(ret'.val) = {k \in DOMAIN files : startsWith(k, arg')}
              /\ Ascending(ret'.val)]_vars
    /\ [](op = "listDirectory" => (pc = "done" /\ log = <<>> /\ ret.kind = "paths"))

\* listDirectory(p) returned p itself, a key below p and a key that only
\* shares the prefix p.
C14_Witness ==
    /\ Done("listDirectory")
    /\ arg # <<>>
    /\ arg \in Elems(ret.val)
    /\ \E k \in Elems(ret.val) : startsWith(k, arg \o <<"/">>)
    /\ \E k \in Elems(ret.val) : k # arg /\ ~startsWith(k, arg \o <<"/">>)

\* k is one level below the directory p, p written with or without
\* separators at its end: k is p, a separator and one name.
IsChildOf(k, p) ==
    LET d == StripSeparators(p)
        n == IF d = <<>> THEN 0 ELSE Len(d) + 1
    IN  /\ Len(k) > n
        /\ d # <<>> => startsWith(k, d \o <<"/">>)
        /\ \A i \in (n + 1)..Len(k) : k[i] # "/"

\* C15. iterateDirectory(p), once its initializeIfNeeded has succeeded
\* and its assertExists has passed, yields exactly the keys the Index has
\* one level below p at that moment (p taken without trailing
\* separators), none from deeper levels, each once and in the order of
\* the Index; the iterator owns what it yields: keys that enter the Index
\* after the call has returned do not change it.
C15_IterateDirectory ==
    /\ [][(pc = "body" /\ pc' # "body" /\ op = "iterateDirectory") =>
              /\ pc' = "done"
              /\ ret'.kind = "paths"
              /\ Elems(ret'.val) = {k \in DOMAIN files : IsChildOf(k, arg)}
              /\ Ascending(ret'.val)]_vars
    /\ [][(pc = "done" /\ pc' = "done" /\ op = "iterateDirectory") => ret' = ret]_vars
    /\ []((pc = "body" /\ op = "iterateDirectory") =>
              /\ log[1].site = "top"
              /\ log[1].res \in {"hit", "ok"}
              /\ HasPrefixKey(files, arg))

\* iterateDirectory("") has yielded a key one level below the root and
\* not the key two levels below it; a second key one level below the
\* root entered the Index afterwards and is not in the iterator.
C15_Witness ==
    /\ Done("iterateDirectory")
    /\ arg = <<>>
    /\ ret.kind = "paths"
    /\ Len(ret.val) >= 1
    /\ \E k \in DOMAIN files : ~IsChildOf(k, arg)
    /\ \E k \in DOMAIN files : IsChildOf(k, arg) /\ k \notin Elems(ret.val)

\* C16. getStorageObjects(p), for a file p that is a key of the Index,
\* returns one object: its size is the size the Index has for p, it is
\* marked remote, and its key, put behind the url again, is the path of
\* the file on the server: url / dirname(p) / (escape(stem(p)) +
\* extension(p)), with the stem escaped by escapeForFileName and the
\* extension as it is.  A call made when p is a file key does not raise.
\* For url h/r and the file t/a.b of size 100 the key is /t/a.b.
C16_StorageObject ==
    /\ [][(pc = "body" /\ pc' # "body" /\ op = "getStorageObjects"
               /\ arg \in DOMAIN files /\ files[arg].type = "File") =>
              /\ pc' = "done"
              /\ ret'.kind = "objects"
              /\ Len(ret'.val) = 1
              /\ ret'.val[1].size = files[arg].size
              /\ ret'.val[1].is_remote = TRUE
              /\ Url \o ret'.val[1].key =
                     PathAppend(PathAppend(Url, parent_path(arg)),
                                escapeForFileName(stem(arg)) \o extension(arg))
              /\ arg = <<"t", "/", "a", ".", "b">> =>
                     /\ ret'.val[1].key = <<"/", "t", "/", "a", ".", "b">>
                     /\ ret'.val[1].size = 100]_vars
    /\ []((Done("getStorageObjects") /\ log[1].res = "hit" /\ files[arg].type = "File") =>
              ret.kind = "objects")

\* getStorageObjects("t.a.b") has returned the key /t%2Ea.b: the period
\* inside the stem is escaped, the one of the extension is not.
C16_Witness ==
    /\ Done("getStorageObjects")
    /\ arg = <<"t", ".", "a", ".", "b">>
    /\ ret.kind = "objects"
    /\ ret.val[1].key = <<"/", "t", "%", "2", "E", "a", ".", "b">>
    /\ ret.val[1].size = files[arg].size

\* C17. The lookup of exists() against its reference: for every Index and
\* every path p, exists(p) returns true exactly when the Index it reads,
\* after its probe, is non-empty and has a key that starts with p (p
\* itself when it is a key).  The key before lower_bound never starts with
\* p, and when lower_bound is at the end no key starts with p: neither the
\* look at the predecessor nor the early return changes the answer.
C17_LookupEquivalence ==
    /\ [][(pc = "lookup" /\ pc' # "lookup" /\ op = "exists") =>
              /\ pc' = "done"
              /\ ret'.kind = "bool"
              /\ ret'.val = (DOMAIN files # {} /\ HasPrefixKey(files, arg))]_vars
    /\ [](LET ks == SortedKeys(files)
              it == lower_bound(ks, arg)
          IN  /\ it = Len(ks) + 1 => ~HasPrefixKey(files, arg)
              /\ it > 1 => ~startsWith(ks[it - 1], arg)
              /\ (it <= Len(ks) /\ HasPrefixKey(files, arg)) => startsWith(ks[it], arg))

\* exists(p) returned true for a p that is no key: lower_bound stopped at
\* a key that starts with p and has a key before it.
C17_Witness ==
    /\ Done("exists")
    /\ Gave("bool", TRUE)
    /\ arg \notin DOMAIN files
    /\ arg # <<>>
    /\ LET ks == SortedKeys(files)
           it == lower_bound(ks, arg)
       IN  it > 1 /\ it <= Len(ks)

\* C18. exists(p) returns true only for concrete or ancestor paths:
\* whenever exists(p) has returned true, p is a key of the Index, or the
\* root, or a directory above a key (some key starts with p and a
\* separator, p taken without separators at its end); a p that is only
\* the beginning of a file name is not reported as existing.
C18_AsClaimed ==
    (Done("exists") /\ Gave("bool", TRUE)) =>
        \/ arg \in DOMAIN files
        \/ StripSeparators(arg) = <<>>
        \/ HasDescendant(files, StripSeparators(arg))

\* C19. Probe seeding in exists: exists(p) calls initializeIfNeeded once,
\* for the probe path q, which is dirname(p) when p has a filename
\* extension and p otherwise, so never for p itself when p has an
\* extension; the fetcher is called, once, exactly when q is no key at
\* that moment; and an exists(p) that finds p among the keys after the
\* probe returns true (a cold exists("t/a.b") fetches "t" and returns true
\* once the fetch has put "t/a.b" into the Index).
C19_ProbeSeeding ==
    /\ [](op = "exists" =>
             /\ Len(log) = 1
             /\ log[1].site = "exists"
             /\ log[1].path = (IF has_extension(arg) THEN parent_path(arg) ELSE arg)
             /\ has_extension(arg) => log[1].path # arg
             /\ log[1].res = "pending" <=> pc = "fetch_exists")
    /\ [][(pc = "idle" /\ op' = "exists") =>
              IF log'[1].path \in DOMAIN files
              THEN pc' = "lookup" /\ log'[1].res = "hit" /\ files' = files
              ELSE pc' = "fetch_exists" /\ log'[1].res = "pending" /\ files' = files]_vars
    /\ [][(pc = "fetch_exists" /\ pc' # "fetch_exists" /\ op = "exists") =>
              (pc' = "lookup" /\ log'[1].res \in {"ok", "fail"})]_vars
    /\ [][(pc = "lookup" /\ pc' # "lookup" /\ op = "exists" /\ arg \in DOMAIN files) =>
              (ret'.kind = "bool" /\ ret'.val = TRUE)]_vars

\* exists("t/a.b") has fetched "t", which is still no key, and returned
\* true: the fetch brought "t/a.b".
C19_Witness ==
    /\ Done("exists")
    /\ arg = <<"t", "/", "a", ".", "b">>
    /\ log = <<Entry("exists", <<"t">>, "ok")>>
    /\ Gave("bool", TRUE)
    /\ <<"t">> \notin DOMAIN files

====
